---- MODULE Spec2Model ----
(***************************************************************************)
(* The NER annotation tool: a tkinter Text widget whose per-character      *)
(* colour tags are the annotation store (bio_annotator.py), the BIOES tag  *)
(* codec used by save_to_bio and load_from_csv, and the CSV loader.        *)
(*                                                                         *)
(* The widget content is a flat sequence of characters, lines separated by *)
(* "\n" (Tk's own trailing newline is left implicit); tags[i] is the set   *)
(* of colour tags on the i-th character.  An index "line.col" is the pair  *)
(* <<line, col>>, resolved against the content the way Tk resolves it.     *)
(***************************************************************************)
EXTENDS Integers, Sequences, FiniteSets, TLC

\* ------------------------------------------------------------------ bounds
\* labels of the catalog in use besides the clear entry
NumLabels == 2
\* characters of text in one loaded file, all rows together
MaxChars == 2
\* data rows of one loaded file
MaxRows == 2
\* length of a tag array handed to the codec
MaxTags == 3
\* 8192-byte chunks of one file
MaxChunks == 2

\* ------------------------------------------------------------------ config.py
\* (colour, BIO tag name); the first entry is the clear label, which has none
LABEL_CONFIG ==
  << <<"white", "">>, <<"red", "VOLTAGE">>, <<"yellow", "INTERVAL_1">>,
     <<"magenta", "INTERVAL_2">>, <<"Cyan", "BRANCH">>, <<"Lime", "DEVICE_ID">>,
     <<"pink", "DEVICE_TYPE">>, <<"green", "SET_COUNT">>,
     <<"orange", "DEVICE_MODEL">>, <<"purple", "ATOMIC_EVENT">>,
     <<"brown", "DESCRIPTION">> >>

\* the part of the catalog the model runs with
Catalog == SubSeq(LABEL_CONFIG, 1, NumLabels + 1)

color_list == [i \in 1..Len(Catalog) |-> Catalog[i][1]]

Colors == {color_list[i] : i \in 1..Len(color_list)}

LabelColors == {color_list[i] : i \in 2..Len(color_list)}

\* bio_to_color: the BIO tag names of the labels, and the colour of each
BioNames == {Catalog[i][2] : i \in 2..Len(Catalog)}

bio_to_color(name) == Catalog[CHOOSE i \in 2..Len(Catalog) : Catalog[i][2] = name][1]

\* WINDOW_CONFIG['default_text'], cut down: two lines, the second a prefix of
\* the first
default_text == <<"a", "b", "\n", "a">>

\* ------------------------------------------------------------------ helpers
Min(a, b) == IF a < b THEN a ELSE b

Whitespace == {" ", "\n"}

\* str.strip()
RECURSIVE lstrip(_)
lstrip(s) == IF s # <<>> /\ Head(s) \in Whitespace THEN lstrip(Tail(s)) ELSE s

RECURSIVE rstrip(_)
rstrip(s) ==
  IF s # <<>> /\ s[Len(s)] \in Whitespace THEN rstrip(SubSeq(s, 1, Len(s) - 1)) ELSE s

strip(s) == rstrip(lstrip(s))

\* str.split('\n'): always at least one piece
RECURSIVE split(_)
split(s) ==
  IF s = <<>> THEN << <<>> >>
  ELSE LET r == split(Tail(s)) IN
       IF Head(s) = "\n" THEN << <<>> >> \o r
       ELSE << <<Head(s)>> \o Head(r) >> \o Tail(r)

\* ------------------------------------------------------------------ Tk Text
\* offset of the first character of line k (1-based) in the flat content
RECURSIVE LineStart(_, _)
LineStart(ls, k) == IF k <= 1 THEN 0 ELSE LineStart(ls, k - 1) + Len(ls[k - 1]) + 1

\* Tk resolves "line.col": a column past the line's end means the line's end,
\* a line past the last line means the end of the content
index(txt, pos) ==
  LET ls == split(txt) IN
  IF pos[1] > Len(ls) THEN Len(txt)
  ELSE LineStart(ls, pos[1]) + Min(pos[2], Len(ls[pos[1]]))

\* the "line.col" string Tk reports for a flat offset
Position(txt, p) ==
  LET row == 1 + Cardinality({i \in 1..p : txt[i] = "\n"}) IN
  <<row, p - LineStart(split(txt), row)>>

\* text_widget.tag_remove(color, start, end)
tag_remove(tg, txt, color, start, end) ==
  LET s == index(txt, start)
      e == index(txt, end) IN
  [i \in 1..Len(tg) |-> IF s < i /\ i <= e THEN tg[i] \ {color} ELSE tg[i]]

\* text_widget.tag_add(color, start, end)
tag_add(tg, txt, color, start, end) ==
  LET s == index(txt, start)
      e == index(txt, end) IN
  [i \in 1..Len(tg) |-> IF s < i /\ i <= e THEN tg[i] \cup {color} ELSE tg[i]]

\* text_widget.tag_ranges(color): the maximal runs of characters that carry the
\* tag, as <<start, end>> pairs of "line.col" indexes, in document order
RECURSIVE ranges_from(_, _, _, _)
ranges_from(tg, txt, color, i) ==
  IF i > Len(tg) THEN <<>>
  ELSE IF color \notin tg[i] THEN ranges_from(tg, txt, color, i + 1)
  ELSE LET j == CHOOSE k \in i..Len(tg) :
                  /\ \A m \in i..k : color \in tg[m]
                  /\ (k = Len(tg) \/ color \notin tg[k + 1])
       IN << <<Position(txt, i - 1), Position(txt, j)>> >>
            \o ranges_from(tg, txt, color, j + 1)

tag_ranges(tg, txt, color) == ranges_from(tg, txt, color, 1)

\* text_widget.get('1.0', END): the content and Tk's trailing newline
get_all(txt) == txt \o <<"\n">>

\* text_widget.get(start, end)
get(txt, start, end) == SubSeq(txt, index(txt, start) + 1, index(txt, end))

\* ------------------------------------------------------------------ annotation
\* a variant that leaves the last character of the range as it was
remove_tags_short(tg, txt, start_pos, end_pos) ==
  [i \in 1..Len(tg) |->
     IF index(txt, start_pos) < i /\ i < index(txt, end_pos) THEN {} ELSE tg[i]]

\* _remove_tags_from_range: tag_remove for every colour of color_list
RECURSIVE remove_from(_, _, _, _, _)
remove_from(tg, txt, start_pos, end_pos, k) ==
  IF k > Len(color_list) THEN tg
  ELSE remove_from(tag_remove(tg, txt, color_list[k], start_pos, end_pos),
                   txt, start_pos, end_pos, k + 1)

remove_tags_from_range(tg, txt, start_pos, end_pos) ==
  remove_from(tg, txt, start_pos, end_pos, 1)

\* a variant that adds the tag whatever the colour
set_span_nocheck(tg, txt, start_pos, end_pos, color) ==
  tag_add(remove_tags_from_range(tg, txt, start_pos, end_pos), txt, color, start_pos, end_pos)

\* the body of annotate_selection once the selection is known
set_span(tg, txt, start_pos, end_pos, color) ==
  LET cleared == remove_tags_from_range(tg, txt, start_pos, end_pos) IN
  IF color # "white" THEN tag_add(cleared, txt, color, start_pos, end_pos)
  ELSE cleared

\* re.finditer(re.escape(search_text), line): literal, left to right, the scan
\* going on after the end of each match
RECURSIVE finditer(_, _, _)
finditer(line, pat, i) ==
  IF i + Len(pat) > Len(line) THEN <<>>
  ELSE IF SubSeq(line, i + 1, i + Len(pat)) = pat
       THEN << <<i, i + Len(pat)>> >> \o finditer(line, pat, i + Len(pat))
       ELSE finditer(line, pat, i + 1)

\* _find_all_positions
RECURSIVE positions_from(_, _, _)
positions_from(lines, search_text, line_num) ==
  IF line_num > Len(lines) THEN <<>>
  ELSE LET ms == finditer(lines[line_num], search_text, 0) IN
       [m \in 1..Len(ms) |-> << <<line_num, ms[m][1]>>, <<line_num, ms[m][2]>> >>]
         \o positions_from(lines, search_text, line_num + 1)

find_all_positions(lines, search_text) == positions_from(lines, search_text, 1)

\* the loop of annotate_all_matches over the positions
RECURSIVE apply_positions(_, _, _, _, _)
apply_positions(tg, txt, positions, color, k) ==
  IF k > Len(positions) THEN tg
  ELSE apply_positions(set_span(tg, txt, positions[k][1], positions[k][2], color),
                       txt, positions, color, k + 1)

\* ------------------------------------------------------------------ tag codec
\* a tag token is <<head, dash, name>>: "B-VOLTAGE" is <<"B", "-", "VOLTAGE">>,
\* a token without a dash is <<token, "", "">>
Tag(prefix, tag_name) == <<prefix, "-", tag_name>>

Plain(token) == <<token, "", "">>

O == Plain("O")

\* 'O' * n
OStr == <<"O", "OO", "OOO", "OOOO", "OOOOO", "OOOOOO", "OOOOOOO", "OOOOOOOO">>

OTimes(n) == Plain(OStr[n])

\* a variant that closes a multi-character span with I- instead of E-
apply_bio_tags_noend(line, start_col, end_col, tag_name) ==
  [i \in 1..Len(line) |->
     IF i - 1 = start_col THEN Tag("B", tag_name)
     ELSE IF start_col < i - 1 /\ i - 1 < end_col THEN Tag("I", tag_name)
     ELSE line[i]]

\* a variant without the case of a single character
apply_bio_tags_nosingle(line, start_col, end_col, tag_name) ==
  [i \in 1..Len(line) |->
     IF i - 1 = end_col - 1 THEN Tag("E", tag_name)
     ELSE IF start_col < i - 1 /\ i - 1 < end_col - 1 THEN Tag("I", tag_name)
     ELSE IF i - 1 = start_col THEN Tag("B", tag_name)
     ELSE line[i]]

\* _apply_bio_tags: columns are 0-based, end_col exclusive
apply_bio_tags(line, start_col, end_col, tag_name) ==
  LET length == end_col - start_col IN
  [i \in 1..Len(line) |->
     IF length = 1
     THEN IF i - 1 = start_col THEN Tag("S", tag_name) ELSE line[i]
     ELSE IF i - 1 = end_col - 1 THEN Tag("E", tag_name)
          ELSE IF start_col < i - 1 /\ i - 1 < end_col - 1 THEN Tag("I", tag_name)
          ELSE IF i - 1 = start_col THEN Tag("B", tag_name)
          ELSE line[i]]

\* save_to_bio, the loop over the ranges of one label
RECURSIVE apply_ranges(_, _, _, _)
apply_ranges(result, tag_rngs, name, r) ==
  IF r > Len(tag_rngs) THEN result
  ELSE LET start_row == tag_rngs[r][1][1]
           start_col == tag_rngs[r][1][2]
           end_row == tag_rngs[r][2][1]
           end_col == tag_rngs[r][2][2]
           row_idx == start_row - 1
           skip == \/ start_row # end_row
                   \/ row_idx < 0 \/ row_idx >= Len(result)
                   \/ start_col >= Len(result[start_row])
                   \/ end_col > Len(result[start_row])
       IN apply_ranges(
            IF skip THEN result
            ELSE [result EXCEPT ![start_row] =
                    apply_bio_tags(result[start_row], start_col, end_col, name)],
            tag_rngs, name, r + 1)

\* save_to_bio, the loop over the labels (the clear entry is skipped);
\* rngs[color] is what tag_ranges(color) returns
RECURSIVE apply_labels(_, _, _)
apply_labels(result, rngs, label_index) ==
  IF label_index > Len(Catalog) THEN result
  ELSE apply_labels(
         apply_ranges(result, rngs[Catalog[label_index][1]],
                      Catalog[label_index][2], 1),
         rngs, label_index + 1)

\* save_to_bio: the data rows written, <<line text, tag array>> per line
save_to_bio(txt, tg) ==
  LET all == split(get_all(txt))
      lines == IF all[Len(all)] = <<>> THEN SubSeq(all, 1, Len(all) - 1) ELSE all
      result == [l \in 1..Len(lines) |-> [c \in 1..Len(lines[l]) |-> O]]
      rngs == [c \in LabelColors |-> tag_ranges(tg, txt, c)]
      tagged == apply_labels(result, rngs, 2)
  IN [l \in 1..Len(lines) |-> <<lines[l], tagged[l]>>]

\* load_from_csv, the inner while loop after a B- tag: the scan goes on over
\* I-<name>, stops behind an E-<name> and stops at anything else
RECURSIVE scan(_, _, _, _)
scan(line_tags, tag_name, end_char, j) ==
  IF j >= Len(line_tags) THEN [end_char |-> end_char, j |-> j]
  ELSE IF line_tags[j + 1] = Tag("I", tag_name)
       THEN scan(line_tags, tag_name, j + 1, j + 1)
       ELSE IF line_tags[j + 1] = Tag("E", tag_name)
            THEN [end_char |-> j + 1, j |-> j + 1]
            ELSE [end_char |-> end_char, j |-> j]

\* a variant that gives up a B- run that no E- closes
RECURSIVE decode_strict(_, _)
decode_strict(line_tags, i) ==
  IF i >= Len(line_tags) THEN <<>>
  ELSE LET tag == line_tags[i + 1] IN
       IF tag[2] = "-" /\ tag[3] \in BioNames /\ tag[1] = "S"
       THEN << <<i, i + 1, bio_to_color(tag[3])>> >> \o decode_strict(line_tags, i + 1)
       ELSE IF tag[2] = "-" /\ tag[3] \in BioNames /\ tag[1] = "B"
            THEN LET sc == scan(line_tags, tag[3], i + 1, i + 1)
                     closed == sc.j > i + 1 /\ line_tags[sc.j] = Tag("E", tag[3])
                 IN (IF closed THEN << <<i, sc.end_char, bio_to_color(tag[3])>> >>
                     ELSE <<>>) \o decode_strict(line_tags, sc.j)
            ELSE decode_strict(line_tags, i + 1)

\* load_from_csv, the while loop over one line's tags: the entities found, as
\* <<start_char, end_char, color>> in the order of the tag_add calls
RECURSIVE decode_from(_, _)
decode_from(line_tags, i) ==
  IF i >= Len(line_tags) THEN <<>>
  ELSE LET tag == line_tags[i + 1] IN
       IF tag = O THEN decode_from(line_tags, i + 1)
       ELSE IF tag[2] = "-"
            THEN LET prefix == tag[1]
                     tag_name == tag[3] IN
                 IF tag_name \in BioNames
                 THEN IF prefix = "B"
                      THEN LET sc == scan(line_tags, tag_name, i + 1, i + 1) IN
                           << <<i, sc.end_char, bio_to_color(tag_name)>> >>
                             \o decode_from(line_tags, sc.j)
                      ELSE IF prefix = "S"
                           THEN << <<i, i + 1, bio_to_color(tag_name)>> >>
                                  \o decode_from(line_tags, i + 1)
                           ELSE decode_from(line_tags, i + 1)
                 ELSE decode_from(line_tags, i + 1)
            ELSE decode_from(line_tags, i + 1)

decode(line_tags) == decode_from(line_tags, 0)

\* ------------------------------------------------------------------ CSV files
\* A file: status says whether open() finds and may read it; chunks are its
\* bytes in 8192-byte chunks, each chunk given as the set of encodings that
\* decode it; fieldnames is the header row (as a set; an empty file has no
\* header and no chunk); rows are the data rows csv.DictReader yields.  A row
\* shorter than the header has None for the tags column (tags_none).  The
\* text column is a sequence of characters, the tags column the sequence of
\* its whitespace-separated tokens.
encodings == <<"utf-8", "gbk", "gb2312">>

AllEncodings == {encodings[i] : i \in 1..Len(encodings)}

Row(text_, tags_) == [text |-> text_, tags |-> tags_, tags_none |-> FALSE]

ShortRow(text_) == [text |-> text_, tags |-> <<>>, tags_none |-> TRUE]

File(chunks_, fieldnames_, rows_) ==
  [status |-> "ok", chunks |-> chunks_, fieldnames |-> fieldnames_, rows |-> rows_]

NoFile == [status |-> "none", chunks |-> <<>>, fieldnames |-> {}, rows |-> <<>>]

\* does the whole byte stream decode under enc
DecodesAll(file, enc) == \A c \in 1..Len(file.chunks) : enc \in file.chunks[c]

\* load_from_csv, the first loop, from candidate k on: open() and read(1024),
\* which decodes the first chunk only.  A missing file raises out of the loop,
\* any other error moves on to the next candidate.
RECURSIVE detect(_, _)
detect(file, k) ==
  IF k > Len(encodings) THEN "None"
  ELSE IF file.status = "missing" THEN "FileNotFoundError"
  ELSE IF file.status = "ok"
          /\ (file.chunks = <<>> \/ encodings[k] \in file.chunks[1])
       THEN encodings[k]
       ELSE detect(file, k + 1)

\* load_from_csv, the loop over the rows: all_lines and all_tags, or the
\* AttributeError of None.strip()
RECURSIVE parse_rows(_, _, _, _)
parse_rows(rows, k, all_lines, all_tags) ==
  IF k > Len(rows)
  THEN [raised |-> FALSE, all_lines |-> all_lines, all_tags |-> all_tags]
  ELSE IF rows[k].tags_none
  THEN [raised |-> TRUE, all_lines |-> all_lines, all_tags |-> all_tags]
  ELSE
    LET txt == strip(rows[k].text)
        tgs == rows[k].tags
        n == Len(all_lines) IN
    IF txt = <<>> THEN parse_rows(rows, k + 1, all_lines, all_tags)
    ELSE IF Len(tgs) = Len(txt)
    THEN parse_rows(rows, k + 1, Append(all_lines, txt), Append(all_tags, tgs))
    ELSE IF Len(tgs) = 1 /\ Len(txt) = 1
    THEN IF all_lines = <<>>
         THEN parse_rows(rows, k + 1, Append(all_lines, txt), Append(all_tags, tgs))
         ELSE IF txt = <<>> \/ txt = <<"\n">>
         THEN parse_rows(rows, k + 1, Append(all_lines, <<>>), Append(all_tags, <<>>))
         ELSE parse_rows(rows, k + 1,
                         [all_lines EXCEPT ![n] = @ \o txt],
                         [all_tags EXCEPT ![n] = @ \o tgs])
    ELSE parse_rows(rows, k + 1, Append(all_lines, txt),
                    Append(all_tags, <<OTimes(Len(txt))>>))

\* load_from_csv, the tag_add calls for the entities of one line
RECURSIVE add_entities(_, _, _, _, _)
add_entities(tg, txt, line_num, ents, k) ==
  IF k > Len(ents) THEN tg
  ELSE add_entities(
         tag_add(tg, txt, ents[k][3], <<line_num, ents[k][1]>>, <<line_num, ents[k][2]>>),
         txt, line_num, ents, k + 1)

\* load_from_csv, the loop that inserts the lines and tags their entities;
\* text inserted at END carries no tag
RECURSIVE display(_, _, _, _, _)
display(all_lines, all_tags, line_idx, txt, tg) ==
  IF line_idx >= Len(all_lines) THEN [text |-> txt, tags |-> tg]
  ELSE LET ins == (IF line_idx > 0 THEN <<"\n">> ELSE <<>>) \o all_lines[line_idx + 1]
           txt2 == txt \o ins
           tg2 == tg \o [i \in 1..Len(ins) |-> {}]
           line_num == line_idx + 1
       IN display(all_lines, all_tags, line_idx + 1, txt2,
                  add_entities(tg2, txt2, line_num, decode(all_tags[line_idx + 1]), 1))

\* what load_from_csv gives back and leaves behind: ret is "ok" for
\* (True, ""), "fail" for (False, error_msg) and "raised" for an exception
\* that leaves the method
Outcome(ret_, msg_, enc_, lines_, tags_, txt, tg) ==
  [ret |-> ret_, error_msg |-> msg_, file_encoding |-> enc_,
   all_lines |-> lines_, all_tags |-> tags_, text |-> txt, tags |-> tg]

load_from_csv(file, txt, tg) ==
  LET file_encoding == detect(file, 1) IN
  IF file_encoding = "FileNotFoundError"
  THEN Outcome("raised", "FileNotFoundError", "None", <<>>, <<>>, txt, tg)
  ELSE IF file_encoding = "None"
  THEN Outcome("fail", "encodings", "None", <<>>, <<>>, txt, tg)
  ELSE IF file.chunks = <<>>
  THEN Outcome("fail", "exception", file_encoding, <<>>, <<>>, txt, tg)
  ELSE IF "text" \notin file.fieldnames
  THEN Outcome("fail", "no_text_column", file_encoding, <<>>, <<>>, txt, tg)
  ELSE IF "tags" \notin file.fieldnames
  THEN Outcome("fail", "no_tags_column", file_encoding, <<>>, <<>>, txt, tg)
  ELSE IF ~DecodesAll(file, file_encoding)
  THEN Outcome("fail", "exception", file_encoding, <<>>, <<>>, txt, tg)
  ELSE IF file.rows = <<>>
  THEN Outcome("fail", "no_data", file_encoding, <<>>, <<>>, txt, tg)
  ELSE LET p == parse_rows(file.rows, 1, <<>>, <<>>) IN
       IF p.raised
       THEN Outcome("fail", "exception", file_encoding, p.all_lines, p.all_tags,
                    <<>>, <<>>)
       ELSE LET d == display(p.all_lines, p.all_tags, 0, <<>>, <<>>) IN
            Outcome("ok", "", file_encoding, p.all_lines, p.all_tags, d.text, d.tags)

\* ------------------------------------------------------------------ inputs
\* the letters of loaded text; the default text has a second letter
FileChars == {"a"}

\* the tags of the rows the store is loaded from: well-formed runs and
\* broken ones
StoreTokens ==
  {O, Tag("B", Catalog[2][2]), Tag("E", Catalog[2][2]),
   Tag("S", Catalog[Len(Catalog)][2])}

\* rows in the per-line shape: as many tags as characters
ShapedRows(toks, maxlen) ==
  UNION {{Row(t, g) : t \in [1..n -> FileChars], g \in [1..n -> toks]} : n \in 1..maxlen}

\* the row sequences with at most budget characters in all
RECURSIVE RowSeqs(_, _)
RowSeqs(toks, budget) ==
  {<<>>} \cup UNION {{<<r>> \o rest : rest \in RowSeqs(toks, budget - Len(r.text))} :
                       r \in ShapedRows(toks, budget)}

GoodChunks == <<AllEncodings>>

Header == {"text", "tags"}

ShapedFiles(toks) == {File(GoodChunks, Header, rows) : rows \in RowSeqs(toks, MaxChars) \ {<<>>}}

\* one file of each kind that load_from_csv does not load
FailingFiles ==
  {[status |-> "missing", chunks |-> <<>>, fieldnames |-> {}, rows |-> <<>>],
   [status |-> "unreadable", chunks |-> GoodChunks, fieldnames |-> Header, rows |-> <<>>],
   File(<<>>, {}, <<>>),
   File(<<{}>>, Header, <<Row(<<"a">>, <<O>>)>>),
   File(<<AllEncodings, {"gbk", "gb2312"}>>, Header, <<Row(<<"a">>, <<O>>)>>),
   File(GoodChunks, {"text"}, <<Row(<<"a">>, <<>>)>>),
   File(GoodChunks, Header, <<>>),
   File(GoodChunks, Header, <<ShortRow(<<"a">>)>>)}

StoreFiles == ShapedFiles(StoreTokens) \cup FailingFiles

\* the files of the history specification: untagged text
PlainFiles == ShapedFiles({O})

\* the files of the loader specification
ChunkClasses == {AllEncodings, {"utf-8"}, {"gbk", "gb2312"}, {"gbk"}, {}}

ChunkSeqs == UNION {[1..n -> ChunkClasses] : n \in 1..MaxChunks}

LoaderChars == {"a", " "}

LoaderTokens == {O, Tag("S", Catalog[2][2])}

LoaderRows ==
  UNION {UNION {{Row(t, g) : t \in [1..n -> LoaderChars], g \in [1..m -> LoaderTokens]}
                  : m \in 0..(MaxChars + 1)} : n \in 0..MaxChars}
    \cup {ShortRow(<<"a">>)}

LoaderFiles ==
  FailingFiles
    \cup {File(c, Header, <<Row(<<"a">>, <<O>>)>>) : c \in ChunkSeqs}
    \cup {File(GoodChunks, h, r) : h \in SUBSET Header, r \in {<<>>, <<Row(<<"a">>, <<O>>)>>}}
    \cup UNION {{File(GoodChunks, Header, rows) : rows \in [1..k -> LoaderRows]}
                  : k \in 1..MaxRows}

\* the tag arrays handed to the decoder: every prefix with every label, O, a
\* label that is not in the catalog and a token without a dash
CodecTokens ==
  {O, Tag("B", "UNKNOWN"), Plain("OO")}
    \cup {Tag(p, n) : p \in {"B", "I", "E", "S"}, n \in BioNames}

\* the non-overlapping labeled spans <<start, end, color>> on a line of n
\* characters, left to right, from column from on
RECURSIVE SpanSeqs(_, _)
SpanSeqs(from, n) ==
  {<<>>} \cup UNION {{<<sp>> \o rest : rest \in SpanSeqs(sp[2], n)} :
                       sp \in {x \in (from..n) \X (from..n) \X LabelColors : x[1] < x[2]}}

\* the tag array of a line of n characters with these spans: the loops of
\* save_to_bio over the labels and their ranges
encode(n, spans) ==
  LET rngs == [c \in LabelColors |->
                 LET mine == SelectSeq(spans, LAMBDA sp : sp[3] = c) IN
                 [k \in 1..Len(mine) |-> << <<1, mine[k][1]>>, <<1, mine[k][2]>> >>]]
  IN apply_labels(<< [i \in 1..n |-> O] >>, rngs, 2)[1]

\* ------------------------------------------------------------------ state
VARIABLES
  text,       \* the widget's content
  tags,       \* the colour tags on each character of the content
  csv_file,   \* the file of the last load_from_csv call
  result,     \* what that call returned, with its all_lines and all_tags
  last,       \* the last operation and its arguments
  prev,       \* the set_span before it, when the two overlap
  pre,        \* the tags before the last operation
  stage,      \* codec: idle, encoded / read, then roundtrip / decoded
  spans_in,   \* codec: the spans encoded
  line_tags,  \* codec: the tag array
  decoded     \* codec: the entities decoded from line_tags

widget == <<text, tags>>

loadv == <<csv_file, result>>

histv == <<last, prev, pre>>

codecv == <<stage, spans_in, line_tags, decoded>>

vars == <<text, tags, csv_file, result, last, prev, pre, stage, spans_in, line_tags, decoded>>

NoResult ==
  [ret |-> "none", error_msg |-> "", file_encoding |-> "None",
   all_lines |-> <<>>, all_tags |-> <<>>]

NoOp ==
  [op |-> "none", start_pos |-> <<1, 0>>, end_pos |-> <<1, 0>>, color |-> "",
   selected_text |-> <<>>, positions |-> <<>>]

\* the application after construction: the default text, nothing tagged
Init ==
  /\ text = default_text
  /\ tags = [i \in 1..Len(default_text) |-> {}]
  /\ csv_file = NoFile
  /\ result = NoResult
  /\ last = NoOp
  /\ prev = NoOp
  /\ pre = [i \in 1..Len(default_text) |-> {}]
  /\ stage = "idle"
  /\ spans_in = <<>>
  /\ line_tags = <<>>
  /\ decoded = <<>>

\* ------------------------------------------------------------------ operations
\* annotate_selection with the selection sel.first = s, sel.last = e (offsets
\* into the content); without a selection the method returns at once
annotate_selection(s, e, color) ==
  LET start_pos == Position(text, s)
      end_pos == Position(text, e) IN
  /\ tags' = set_span(tags, text, start_pos, end_pos, color)
  /\ text' = text

\* what annotate_all_matches searches for and where it finds it
matches(s, e) ==
  LET selected_text == get(text, Position(text, s), Position(text, e))
      lines == split(get_all(text)) IN
  [selected_text |-> selected_text,
   positions |-> IF strip(selected_text) = <<>> THEN <<>>
                 ELSE find_all_positions(lines, selected_text)]

\* annotate_all_matches with that selection; a blank selection changes nothing
annotate_all_matches(s, e, color) ==
  /\ tags' = apply_positions(tags, text, matches(s, e).positions, color, 1)
  /\ text' = text

Selections == {se \in (0..Len(text)) \X (0..Len(text)) : se[1] < se[2]}

\* ---- the program: the store under the three operations
AnnotateSelection ==
  \E se \in Selections, color \in Colors :
    /\ annotate_selection(se[1], se[2], color)
    /\ UNCHANGED <<loadv, histv, codecv>>

AnnotateAllMatches ==
  \E se \in Selections, color \in Colors :
    /\ annotate_all_matches(se[1], se[2], color)
    /\ UNCHANGED <<loadv, histv, codecv>>

LoadFromCsv ==
  \E file \in StoreFiles :
    LET r == load_from_csv(file, text, tags) IN
    /\ text' = r.text
    /\ tags' = r.tags
    /\ UNCHANGED <<loadv, histv, codecv>>

Next == AnnotateSelection \/ AnnotateAllMatches \/ LoadFromCsv

Spec == Init /\ [][Next]_vars

\* ---- set_span after set_span: the operation, the overlapping one before it
\* and the tags before the last operation are recorded
Overlapping(a, b) ==
  /\ index(text, a.start_pos) < index(text, b.end_pos)
  /\ index(text, b.start_pos) < index(text, a.end_pos)

Within(i, a) == index(text, a.start_pos) < i /\ i <= index(text, a.end_pos)

SetSpan ==
  \E se \in Selections, color \in Colors :
    LET op == [op |-> "annotate_selection", start_pos |-> Position(text, se[1]),
               end_pos |-> Position(text, se[2]), color |-> color,
               selected_text |-> <<>>, positions |-> <<>>] IN
    /\ annotate_selection(se[1], se[2], color)
    /\ last' = op
    /\ prev' = IF /\ last.op = "annotate_selection"
                  /\ last.color # "white" /\ color # "white"
                  /\ Overlapping(last, op)
               THEN last ELSE NoOp
    /\ pre' = tags
    /\ UNCHANGED <<loadv, codecv>>

OverwriteNext == SetSpan

OverwriteSpec == Init /\ [][OverwriteNext]_vars

\* ---- set_span_at_all_matches: the search and its matches are recorded
MatchSetSpan ==
  \E se \in Selections, color \in Colors :
    /\ annotate_selection(se[1], se[2], color)
    /\ last' = NoOp
    /\ pre' = tags
    /\ UNCHANGED <<prev, loadv, codecv>>

MatchAllMatches ==
  \E se \in Selections, color \in Colors :
    /\ annotate_all_matches(se[1], se[2], color)
    /\ last' = [op |-> "annotate_all_matches", start_pos |-> Position(text, se[1]),
                end_pos |-> Position(text, se[2]), color |-> color,
                selected_text |-> matches(se[1], se[2]).selected_text,
                positions |-> matches(se[1], se[2]).positions]
    /\ pre' = tags
    /\ UNCHANGED <<prev, loadv, codecv>>

MatchLoad ==
  \E file \in PlainFiles :
    LET r == load_from_csv(file, text, tags) IN
    /\ text' = r.text
    /\ tags' = r.tags
    /\ last' = NoOp
    /\ pre' = tags
    /\ UNCHANGED <<prev, loadv, codecv>>

MatchNext == MatchSetSpan \/ MatchAllMatches \/ MatchLoad

MatchSpec == Init /\ [][MatchNext]_vars

\* ---- the loader: one load_from_csv call on the application as constructed
FirstLoad ==
  /\ csv_file = NoFile
  /\ \E file \in LoaderFiles :
       LET r == load_from_csv(file, text, tags) IN
       /\ text' = r.text
       /\ tags' = r.tags
       /\ csv_file' = file
       /\ result' = [ret |-> r.ret, error_msg |-> r.error_msg,
                     file_encoding |-> r.file_encoding,
                     all_lines |-> r.all_lines, all_tags |-> r.all_tags]
       /\ UNCHANGED <<histv, codecv>>

LoadNext == FirstLoad

LoadSpec == Init /\ [][LoadNext]_vars

\* ---- the codec: encode spans and decode them, or decode a tag array read
\* from a file
Encode ==
  /\ stage = "idle"
  /\ \E n \in 1..MaxTags :
       \E spans \in SpanSeqs(0, n) :
         /\ spans_in' = spans
         /\ line_tags' = encode(n, spans)
  /\ stage' = "encoded"
  /\ UNCHANGED <<widget, loadv, histv, decoded>>

ReadTags ==
  /\ stage = "idle"
  /\ \E n \in 0..MaxTags : \E t \in [1..n -> CodecTokens] : line_tags' = t
  /\ stage' = "read"
  /\ UNCHANGED <<widget, loadv, histv, spans_in, decoded>>

Decode ==
  /\ stage \in {"encoded", "read"}
  /\ decoded' = decode(line_tags)
  /\ stage' = IF stage = "encoded" THEN "roundtrip" ELSE "decoded"
  /\ UNCHANGED <<widget, loadv, histv, spans_in, line_tags>>

CodecNext == Encode \/ ReadTags \/ Decode

CodecSpec == Init /\ [][CodecNext]_vars

\* ---- one save and load: the pasted-in text is labeled, saved with
\* save_to_bio and the file that was written is loaded
\* the characters pasted into the widget
PasteChars == {"a", " ", "\n"}

PasteDocs == UNION {[1..n -> PasteChars] : n \in 0..(MaxChars + 1)}

\* the file save_to_bio writes: the header row, then a row per line with the
\* line's text and its tags, in the output encoding (utf-8)
written(txt, tg) ==
  LET data == save_to_bio(txt, tg) IN
  File(<<{"utf-8"}>>, Header, [l \in 1..Len(data) |-> Row(data[l][1], data[l][2])])

\* the user replaces the content of the widget: what is pasted carries no tag
Paste ==
  /\ csv_file = NoFile
  /\ \E doc \in PasteDocs :
       /\ text' = doc
       /\ tags' = [i \in 1..Len(doc) |-> {}]
  /\ last' = NoOp
  /\ UNCHANGED <<prev, pre, loadv, codecv>>

SaveSetSpan ==
  /\ csv_file = NoFile
  /\ \E se \in Selections, color \in Colors :
       annotate_selection(se[1], se[2], color)
  /\ last' = NoOp
  /\ UNCHANGED <<prev, pre, loadv, codecv>>

SaveToBio ==
  /\ csv_file = NoFile
  /\ csv_file' = written(text, tags)
  /\ last' = [NoOp EXCEPT !.op = "save_to_bio"]
  /\ UNCHANGED <<widget, result, prev, pre, codecv>>

LoadSaved ==
  /\ last.op = "save_to_bio"
  /\ LET r == load_from_csv(csv_file, text, tags) IN
     /\ text' = r.text
     /\ tags' = r.tags
     /\ result' = [ret |-> r.ret, error_msg |-> r.error_msg,
                   file_encoding |-> r.file_encoding,
                   all_lines |-> r.all_lines, all_tags |-> r.all_tags]
  /\ last' = [NoOp EXCEPT !.op = "load_from_csv"]
  /\ pre' = tags
  /\ UNCHANGED <<csv_file, prev, codecv>>

SaveLoadNext == Paste \/ SaveSetSpan \/ SaveToBio \/ LoadSaved

SaveLoadSpec == Init /\ [][SaveLoadNext]_vars

RunStop(t, i, name) ==
  CHOOSE j \in (i + 1)..Len(t) :
    /\ \A m \in (i + 1)..(j - 1) : t[m + 1] = Tag("I", name)
    /\ (j = Len(t) \/ t[j + 1] # Tag("I", name))

\* column i holds a B- of a catalog label
Opens(t, i) == t[i + 1][1] = "B" /\ t[i + 1][2] = "-" /\ t[i + 1][3] \in BioNames

\* ... and no E- of that label closes its run
Dangling(t, i) ==
  /\ Opens(t, i)
  /\ LET j == RunStop(t, i, t[i + 1][3]) IN
     j = Len(t) \/ t[j + 1] # Tag("E", t[i + 1][3])

Starts(d) == {d[k][1] : k \in 1..Len(d)}

C2_OverwriteLaw ==
  [][(/\ last.op = "annotate_selection" /\ last'.op = "annotate_selection"
      /\ last.color # "white" /\ last'.color # "white"
      /\ Overlapping(last, last'))
      => \A i \in 1..Len(text) :
           IF Within(i, last') THEN tags'[i] = {last'.color}
           ELSE IF Within(i, last) THEN tags'[i] = {last.color}
           ELSE tags'[i] = pre[i]]_vars

\* the second of two overlapping set_span calls has acted: part of the first
\* range kept the first label, the common part carries the second, and a
\* character outside both still carries a label from before
C2_Witness ==
  /\ prev.op = "annotate_selection" /\ last.op = "annotate_selection"
  /\ prev.color # last.color
  /\ \E i \in 1..Len(text) :
       Within(i, prev) /\ ~Within(i, last) /\ tags[i] = {prev.color}
  /\ \E i \in 1..Len(text) :
       Within(i, prev) /\ Within(i, last) /\ tags[i] = {last.color}
  /\ \E i \in 1..Len(text) :
       ~Within(i, prev) /\ ~Within(i, last) /\ tags[i] # {} /\ tags[i] = pre[i]

\* ---- C3 (MatchSpec)
\* C3: after set_span_at_all_matches with a non-blank search text and a
\* non-clear label, the store holds, for every occurrence found, one span of
\* that label with exactly the occurrence's bounds (stated for a text none of
\* whose characters carried the label before, so that the only spans of the
\* label are those the call creates).
C3_AllMatches ==
  (/\ last.op = "annotate_all_matches"
   /\ last.color # "white"
   /\ strip(last.selected_text) # <<>>
   /\ \A i \in 1..Len(pre) : last.color \notin pre[i])
  => LET rs == tag_ranges(tags, text, last.color) IN
     /\ Len(rs) = Len(last.positions)
     /\ \A k \in 1..Len(last.positions) : \E r \in 1..Len(rs) : rs[r] = last.positions[k]

\* ---- C5 to C8 (LoadSpec)
\* the text and the tags of a row as the loader reads them
RowText(r) == strip(r.text)

PerLineShape(r) == Len(r.tags) = Len(RowText(r))

FragmentShape(r) == Len(r.tags) = 1 /\ Len(RowText(r)) = 1

\* the rows up to k are lines of their own: they have text and are no fragments
LinesUpTo(rows, k) ==
  \A m \in 1..k : ~rows[m].tags_none /\ RowText(rows[m]) # <<>> /\ ~FragmentShape(rows[m])

\* C5: a row whose tags match neither shape becomes one line with the row's
\* text and as many tags as the text has characters, each of them O.
C5_ShapeFallback ==
  result.ret = "ok" =>
    \A k \in 1..Len(csv_file.rows) :
      (/\ LinesUpTo(csv_file.rows, k)
       /\ ~PerLineShape(csv_file.rows[k]))
      => /\ Len(result.all_lines) >= k
         /\ result.all_lines[k] = RowText(csv_file.rows[k])
         /\ result.all_tags[k] = [c \in 1..Len(RowText(csv_file.rows[k])) |-> O]

RECURSIVE JoinText(_, _)
JoinText(rows, k) == IF k > Len(rows) THEN <<>> ELSE RowText(rows[k]) \o JoinText(rows, k + 1)

RECURSIVE JoinTags(_, _)
JoinTags(rows, k) == IF k > Len(rows) THEN <<>> ELSE rows[k].tags \o JoinTags(rows, k + 1)

\* C6: consecutive rows of one character and one tag each are gathered into
\* one line, a character and a tag per row.
C6_Fragments ==
  (/\ result.ret = "ok"
   /\ \A k \in 1..Len(csv_file.rows) :
        ~csv_file.rows[k].tags_none /\ FragmentShape(csv_file.rows[k]))
  => /\ result.all_lines = <<JoinText(csv_file.rows, 1)>>
     /\ result.all_tags = <<JoinTags(csv_file.rows, 1)>>

\* the first candidate that decodes the whole byte stream, if there is one
WholeFile(file) == {i \in 1..Len(encodings) : DecodesAll(file, encodings[i])}

\* C7: load uses the first of utf-8, gbk, gb2312 that decodes the whole byte
\* stream, and gives the encoding failure when none does.
C7_EncodingFallback ==
  (csv_file.status = "ok" /\ result.ret # "none") =>
    LET ok == WholeFile(csv_file) IN
    IF ok = {} THEN result.ret = "fail" /\ result.error_msg = "encodings"
    ELSE /\ result.file_encoding = encodings[CHOOSE i \in ok : \A m \in ok : i <= m]
         /\ (/\ Header \subseteq csv_file.fieldnames
             /\ csv_file.rows # <<>>
             /\ \A k \in 1..Len(csv_file.rows) : ~csv_file.rows[k].tags_none)
            => result.ret = "ok"

\* the files load_from_csv has to refuse
FailureKind(file) ==
  \/ file.status \in {"missing", "unreadable"}
  \/ WholeFile(file) = {}
  \/ ~(Header \subseteq file.fieldnames)
  \/ file.rows = <<>>

\* C8: whatever the failure, load_from_csv returns a failure result with an
\* error message; no exception leaves it.
C8_ErrorsAsResults ==
  result.ret # "none" =>
    /\ result.ret # "raised"
    /\ FailureKind(csv_file) => (result.ret = "fail" /\ result.error_msg # "")

\* ---- C9 (Spec)
\* C9: every character carries at most one label, and never the clear label.
C9_SingleLabel ==
  \A i \in 1..Len(tags) : Cardinality(tags[i]) <= 1 /\ "white" \notin tags[i]

\* two neighbouring characters carry different labels
C9_Witness ==
  \E i \in 1..(Len(tags) - 1) :
    /\ tags[i] # {} /\ tags[i + 1] # {} /\ tags[i] # tags[i + 1]
    /\ text[i] # "\n" /\ text[i + 1] # "\n"

\* ---- C10 (Spec)
\* positions a..b are a maximal run of tags with one label
MaximalRun(t, a, b) ==
  /\ \A k \in a..b : t[k] # O /\ t[k][3] = t[a][3]
  /\ (a = 1 \/ t[a - 1] = O \/ t[a - 1][3] # t[a][3])
  /\ (b = Len(t) \/ t[b + 1] = O \/ t[b + 1][3] # t[a][3])

\* S-, or B- I- ... I- E-
ValidRun(t, a, b) ==
  \/ a = b /\ t[a][1] = "S"
  \/ /\ a < b /\ t[a][1] = "B" /\ t[b][1] = "E"
     /\ \A k \in (a + 1)..(b - 1) : t[k][1] = "I"

WellFormed(t) ==
  /\ \A k \in 1..Len(t) :
       t[k] = O \/ (t[k][2] = "-" /\ t[k][1] \in {"B", "I", "E", "S"} /\ t[k][3] \in BioNames)
  /\ \A a \in 1..Len(t) : \A b \in a..Len(t) : MaximalRun(t, a, b) => ValidRun(t, a, b)

\* C10: the tag array save computes for each line has one tag per character,
\* and each maximal run of tags of one label is S- or B- I- ... E-.
C10_WellFormedOutput ==
  LET rows == save_to_bio(text, tags) IN
  \A l \in 1..Len(rows) : Len(rows[l][2]) = Len(rows[l][1]) /\ WellFormed(rows[l][2])

\* a text has been loaded and tagged, and save writes a B- E- run for it
C10_Witness ==
  LET rows == save_to_bio(text, tags) IN
  /\ text # default_text
  /\ \E l \in 1..Len(rows) : \E k \in 1..(Len(rows[l][2]) - 1) :
       rows[l][2][k][1] = "B" /\ rows[l][2][k + 1][1] = "E"

\* ---- C11 (SaveLoadSpec)
\* the lines save_to_bio wrote, joined again: the document that was saved
RECURSIVE SavedText(_, _)
SavedText(rows, k) ==
  IF k > Len(rows) THEN <<>>
  ELSE (IF k > 1 THEN <<"\n">> ELSE <<>>) \o rows[k].text \o SavedText(rows, k + 1)

\* every labeled span of the saved document lies within one line
SingleLineSpans(txt, tg) == \A i \in 1..Len(txt) : txt[i] = "\n" => tg[i] = {}

\* C11: saving a document whose labeled spans lie within their lines (empty
\* lines and lines with leading or trailing whitespace included) and loading
\* the saved file gives the same lines in the same order, each with the same
\* text and the same label on every character.
C11_SaveLoadRoundTrip ==
  (/\ last.op = "load_from_csv"
   /\ SingleLineSpans(SavedText(csv_file.rows, 1), pre))
  => /\ result.ret = "ok"
     /\ text = SavedText(csv_file.rows, 1)
     /\ tags = pre

\* ---- C12 (LoadSpec)
\* C12: a load_from_csv call that returns a failure result (encoding failure,
\* missing column, no data rows, an error raised while the rows are read or
\* processed) leaves the text of the document and the label of every
\* character as they were before the call.
C12_FailedLoadUnchanged ==
  result.ret = "fail" => (text = default_text /\ tags = pre)

====
